---- MODULE Spec2Model ----
(***************************************************************************)
(* A model of scripts.js, the script of the robotough.net dashboard page:  *)
(* the DOMContentLoaded handler and its widget initializers, the checklist *)
(* component and the calendar component, over a localStorage whose values  *)
(* are strings.                                                            *)
(*                                                                         *)
(* A string is modelled as a sequence of lexemes: a one-character string   *)
(* per character of user text, and one multi-character string per JSON     *)
(* punctuation or keyword ("[", "{", "\"text\":", "false", ...).  User     *)
(* text is drawn from the characters "a" and " ", so JSON.stringify never  *)
(* has to escape a character.                                              *)
(***************************************************************************)
EXTENDS Integers, Sequences, FiniteSets, TLC

VARIABLES
    pc,             \* position in the DOMContentLoaded handler
    page,           \* ids (and the one class) of the elements the document holds
    localStorage,   \* key -> stored string; a key outside the domain is absent
    listeners,      \* registered event listeners, as <<element id, event type>>
    timers,         \* callbacks registered with setInterval
    ran,            \* initializers the DOMContentLoaded handler has called
    inputBox,       \* value of the #inputBox text field
    rows,           \* the <li> rows of #checklist, each with the index its handlers captured
    currentMonth,   \* module variable currentMonth
    currentYear,    \* module variable currentYear
    monthYear,      \* what #month-year displays, as <<year, month>>; <<>> before any render
    emptyDays,      \* number of leading .empty-day cells in #calendar-body
    cells,          \* day -> value of that day's textarea; <<>> when there is none
    notesKey,       \* localStorageKey captured by the listeners of the rendered cells
    savedNotes,     \* savedNotes object captured by the listeners of the rendered cells
    wallpaper,      \* what the wallpaper widget displays: "untouched", "video" or "image"
    cssVars,        \* custom properties set on the root element, name -> string
    navs,           \* number of month navigations so far
    edits,          \* number of note edits so far
    pickerValue,    \* value of #accentColorPicker; <<>> until the script sets it
    hexDisplay,     \* text of #hexDisplay; <<>> until the script sets it
    passwordInput,  \* value of #passwordInput
    location,       \* the document the window shows: "loaded", the one the script was
                    \* loaded in, or "main.html"
    alerts,         \* whether the last keypad click ended in the alert of checkPassword
    entered,        \* <<year, month, day>> -> the text the user entered last in that day's textarea
    lastEvent,      \* the event dispatched last, with what it was given and how it ended
    before          \* what the store, the checklist and the month were when it was dispatched

vars == <<pc, page, localStorage, listeners, timers, ran, inputBox, rows,
          currentMonth, currentYear, monthYear, emptyDays, cells, notesKey,
          savedNotes, wallpaper, cssVars, pickerValue, hexDisplay, passwordInput,
          location, alerts, entered, navs, edits, lastEvent, before>>

---------------------------------------------------------------------------
(* Bounds.                                                                 *)

\* longest text typed into #inputBox
MaxInput == 2
\* most rows the checklist grows to
MaxItems == 2
\* most month navigations in one behaviour
MaxNavs == 2
\* most note edits in one behaviour
MaxEdits == 2
\* the days of the month whose textarea the user edits are 1..MaxEditDay
MaxEditDay == 2
\* the year the page is loaded in
LoadYear == 2024

Chars == {"a", " "}

RECURSIVE StringsUpTo(_)
StringsUpTo(n) ==
    IF n = 0 THEN {<<>>}
    ELSE LET shorter == StringsUpTo(n - 1)
         IN  shorter \cup {Append(s, c) : s \in {t \in shorter : Len(t) = n - 1}, c \in Chars}

InputTexts == StringsUpTo(MaxInput)

NoteTexts == {<<>>, <<"a">>}

\* a digit, a lower-case and an upper-case hex letter, and a letter that is no hex digit
ColorChars == {"0", "a", "F", "g"}

\* colour texts of every length from 0 to 7, without "#": all of one, two and
\* three characters, the three-character ones with each character doubled,
\* and some of four, five, six and seven characters
ColorBodies ==
    {<<>>}
    \cup {<<a>> : a \in ColorChars}
    \cup {<<a, b>> : a, b \in ColorChars}
    \cup {<<a, b, c>> : a, b, c \in ColorChars}
    \cup {<<a, b, a, b>> : a, b \in ColorChars}
    \cup {<<a, b, "0", a, b>> : a, b \in ColorChars}
    \cup {<<a, a, b, b, c, c>> : a, b, c \in ColorChars}
    \cup {<<a, b, "0", "0", a, b>> : a, b \in ColorChars}
    \cup {<<a, b, "0", "a", "F", a, b>> : a, b \in ColorChars}

\* the values the picker is given: with and without the leading "#", and with
\* a "#" where the patterns of hexToRgb allow none
ColorTexts ==
    ColorBodies \cup {<<"#">> \o s : s \in ColorBodies}
        \cup {<<"#", "#", "0", "a", "F">>, <<"0", "a", "F", "#">>}

---------------------------------------------------------------------------
(* Strings.                                                                *)

RECURSIVE trimStart(_)
trimStart(s) ==
    IF s # <<>> /\ Head(s) = " " THEN trimStart(Tail(s)) ELSE s

RECURSIVE trimEnd(_)
trimEnd(s) ==
    IF s # <<>> /\ s[Len(s)] = " " THEN trimEnd(SubSeq(s, 1, Len(s) - 1)) ELSE s

\* trim left out: inputBox.value
untrimmed(s) == s

\* String.prototype.trim
trim(s) == trimEnd(trimStart(s))

---------------------------------------------------------------------------
(* JSON, for the two shapes the script writes.                             *)

Quote == "\""
TextKey == "\"text\":"
CheckedKey == "\"checked\":"

\* the lexeme of the member name of day d in a notes object: "d":
dayKey(d) == Quote \o ToString(d) \o "\":"

DayKeys == {dayKey(d) : d \in 1..31}

dayOfKey(lexeme) == CHOOSE d \in 1..31 : dayKey(d) = lexeme

stringifyString(s) == <<Quote>> \o s \o <<Quote>>

\* stringifyBool with the two literals exchanged
stringifyNegated(b) == IF b THEN <<"false">> ELSE <<"true">>

stringifyBool(b) == IF b THEN <<"true">> ELSE <<"false">>

stringifyItem(item) ==
    <<"{", TextKey>> \o stringifyString(item.text) \o <<",", CheckedKey>>
        \o stringifyBool(item.checked) \o <<"}">>

RECURSIVE joinItems(_)
joinItems(items) ==
    IF items = <<>> THEN <<>>
    ELSE IF Len(items) = 1 THEN stringifyItem(items[1])
    ELSE stringifyItem(items[1]) \o <<",">> \o joinItems(Tail(items))

\* JSON.stringify of an array of {text, checked} objects
stringifyItems(items) == <<"[">> \o joinItems(items) \o <<"]">>

RECURSIVE joinNotes(_, _)
joinNotes(notes, days) ==
    IF days = {} THEN <<>>
    ELSE LET d == CHOOSE x \in days : \A y \in days : x <= y
             member == <<dayKey(d)>> \o stringifyString(notes[d])
         IN  IF days = {d} THEN member
             ELSE member \o <<",">> \o joinNotes(notes, days \ {d})

\* JSON.stringify of an object whose keys are days: integer keys come out ascending
stringifyNotes(notes) == <<"{">> \o joinNotes(notes, DOMAIN notes) \o <<"}">>

SyntaxError == [thrown |-> TRUE, kind |-> "none", items |-> <<>>, notes |-> <<>>]

\* position of the quote closing the string literal that opens at s[1]; 0 if none
closingQuote(s) ==
    IF \E j \in 2..Len(s) : s[j] = Quote
    THEN CHOOSE j \in 2..Len(s) : s[j] = Quote /\ \A i \in 2..(j - 1) : s[i] # Quote
    ELSE 0

\* the string literal at the head of s, closed at position q, and what follows it
stringLiteral(s, q) ==
    [ok |-> q > 0, chars |-> SubSeq(s, 2, q - 1), rest |-> SubSeq(s, q + 1, Len(s))]

\* a string literal at the head of s
parseString(s) ==
    IF s # <<>> /\ Head(s) = Quote
    THEN stringLiteral(s, closingQuote(s))
    ELSE [ok |-> FALSE, chars |-> <<>>, rest |-> <<>>]

NoItem == [ok |-> FALSE, item |-> [text |-> <<>>, checked |-> FALSE], rest |-> <<>>]

\* the rest of an item whose text is the literal str: ,"checked":b}
itemAfterText(str) ==
    IF str.ok /\ Len(str.rest) >= 4 /\ str.rest[1] = "," /\ str.rest[2] = CheckedKey
       /\ str.rest[3] \in {"true", "false"} /\ str.rest[4] = "}"
    THEN [ok |-> TRUE,
          item |-> [text |-> str.chars, checked |-> (str.rest[3] = "true")],
          rest |-> SubSeq(str.rest, 5, Len(str.rest))]
    ELSE NoItem

\* one {"text":"...","checked":b} object at the head of s
parseItem(s) ==
    IF Len(s) >= 2 /\ s[1] = "{" /\ s[2] = TextKey
    THEN itemAfterText(parseString(SubSeq(s, 3, Len(s))))
    ELSE NoItem

RECURSIVE parseElements(_)

\* first, then the elements that more holds
consElements(first, more) == [ok |-> more.ok, items |-> <<first.item>> \o more.items]

\* the elements of an array whose first element parsed as first
elementsFrom(first) ==
    IF ~first.ok \/ first.rest = <<>> THEN [ok |-> FALSE, items |-> <<>>]
    ELSE IF first.rest = <<"]">> THEN [ok |-> TRUE, items |-> <<first.item>>]
    ELSE IF Head(first.rest) = "," THEN consElements(first, parseElements(Tail(first.rest)))
    ELSE [ok |-> FALSE, items |-> <<>>]

\* the elements of an array after its "[": item ("," item)* "]" and nothing more
parseElements(s) == elementsFrom(parseItem(s))

RECURSIVE parseMembers(_)

\* the member of day d with note str, then the members that more holds; of two
\* members of one day the later one stands
consMembers(d, str, more) ==
    [ok |-> more.ok, notes |-> IF more.ok THEN more.notes @@ (d :> str.chars) ELSE <<>>]

\* the members of an object whose first member is day d with the note str
membersFrom(d, str) ==
    IF ~str.ok \/ str.rest = <<>> THEN [ok |-> FALSE, notes |-> <<>>]
    ELSE IF str.rest = <<"}">> THEN [ok |-> TRUE, notes |-> (d :> str.chars)]
    ELSE IF Head(str.rest) = "," THEN consMembers(d, str, parseMembers(Tail(str.rest)))
    ELSE [ok |-> FALSE, notes |-> <<>>]

\* the members of an object after its "{": member ("," member)* "}" and nothing more
parseMembers(s) ==
    IF s # <<>> /\ Head(s) \in DayKeys
    THEN membersFrom(dayOfKey(Head(s)), parseString(Tail(s)))
    ELSE [ok |-> FALSE, notes |-> <<>>]

arrayOf(elements) ==
    IF elements.ok
    THEN [thrown |-> FALSE, kind |-> "array", items |-> elements.items, notes |-> <<>>]
    ELSE SyntaxError

objectOf(members) ==
    IF members.ok
    THEN [thrown |-> FALSE, kind |-> "object", items |-> <<>>, notes |-> members.notes]
    ELSE SyntaxError

\* JSON.parse, on the texts this model stores: an array of {text, checked}
\* objects, an object of day notes, null, or a text that is no JSON
JSONparse(s) ==
    IF s = <<"[", "]">>
    THEN [thrown |-> FALSE, kind |-> "array", items |-> <<>>, notes |-> <<>>]
    ELSE IF s = <<"{", "}">>
    THEN [thrown |-> FALSE, kind |-> "object", items |-> <<>>, notes |-> <<>>]
    ELSE IF s = <<"null">>
    THEN [thrown |-> FALSE, kind |-> "null", items |-> <<>>, notes |-> <<>>]
    ELSE IF s # <<>> /\ Head(s) = "[" THEN arrayOf(parseElements(Tail(s)))
    ELSE IF s # <<>> /\ Head(s) = "{" THEN objectOf(parseMembers(Tail(s)))
    ELSE SyntaxError

---------------------------------------------------------------------------
(* localStorage.                                                           *)

hasItem(store, key) == key \in DOMAIN store

\* localStorage.setItem
setItem(store, key, value) ==
    [k \in DOMAIN store \cup {key} |-> IF k = key THEN value ELSE store[k]]

\* a JavaScript string is truthy unless it is empty; null (an absent key) is falsy
truthyItem(store, key) == hasItem(store, key) /\ store[key] # <<>>

---------------------------------------------------------------------------
(* 5. Password protection and the on-screen keyboard.                      *)

\* the longest passcode the keypad builds: passwordInput.value.length < 4
PASSCODE_LIMIT == 4

\* the passcode of the hint, as the accepted one
hintedPasscode == <<"1", "2", "3", "4">>

\* the value checkPassword accepts
acceptedPasscode == <<"t", "w", "e", "n", "t", "y", "o", "n", "e">>

\* checkPassword: where the window is afterwards, and whether the alert was shown
checkPassword(value) ==
    IF value = acceptedPasscode
    THEN [location |-> "main.html", alerts |-> FALSE]
    ELSE [location |-> "loaded", alerts |-> TRUE]

\* underLimit with <= for <
atLimit(value) == Len(value) <= PASSCODE_LIMIT

\* passwordInput.value.length < 4
underLimit(value) == Len(value) < PASSCODE_LIMIT

\* passwordInput.value.slice(0, -1)
backspaced(value) == SubSeq(value, 1, Len(value) - 1)

\* passwordInput.value after a click on a key whose data-key is keyValue
keyed(value, keyValue) == IF underLimit(value) THEN Append(value, keyValue) ELSE value


CHECKLIST_STORAGE_KEY == "checklistItems"

EmptyArray == [thrown |-> FALSE, kind |-> "array", items |-> <<>>, notes |-> <<>>]

\* saveChecklist: the store after it
saveChecklist(store, items) == setItem(store, CHECKLIST_STORAGE_KEY, stringifyItems(items))

\* loadChecklist: what it returns, or that it throws
loadChecklist(store) ==
    IF truthyItem(store, CHECKLIST_STORAGE_KEY)
    THEN JSONparse(store[CHECKLIST_STORAGE_KEY])
    ELSE EmptyArray

\* spliceOne with the index off by one: items.splice(index + 1, 1)
spliceAfter(items, index) ==
    IF index + 1 < Len(items)
    THEN SubSeq(items, 1, index + 1) \o SubSeq(items, index + 3, Len(items))
    ELSE items

\* items.splice(index, 1), for index >= 0
spliceOne(items, index) ==
    IF index < Len(items)
    THEN SubSeq(items, 1, index) \o SubSeq(items, index + 2, Len(items))
    ELSE items

\* flipChecked without the negation: items[index].checked = true
setChecked(items, index) == [items EXCEPT ![index + 1].checked = TRUE]

\* items[index].checked = !items[index].checked, for 0 <= index < items.length
flipChecked(items, index) ==
    [items EXCEPT ![index + 1].checked = ~items[index + 1].checked]

\* pushItem at the wrong end: items.unshift({ text: text, checked: false })
unshiftItem(items, text) == <<[text |-> text, checked |-> FALSE]>> \o items

\* items.push({ text: text, checked: false })
pushItem(items, text) == Append(items, [text |-> text, checked |-> FALSE])

\* rowsOf with li.dataset.index and the listeners' index counted from 1
rowsOneBased(loaded, oldRows) ==
    IF loaded.thrown THEN [rows |-> oldRows, thrown |-> TRUE]
    ELSE IF loaded.kind # "array" THEN [rows |-> <<>>, thrown |-> TRUE]
    ELSE [rows |-> [i \in 1..Len(loaded.items) |->
                       [index |-> i,
                        text |-> loaded.items[i].text,
                        completed |-> loaded.items[i].checked]],
          thrown |-> FALSE]

\* the rows renderChecklist builds from what loadChecklist gave it, and
\* whether it threw.  JSON.parse throws before the list is cleared; forEach is
\* missing on a value that is no array, and that is found after the list is
\* cleared.
rowsOf(loaded, oldRows) ==
    IF loaded.thrown THEN [rows |-> oldRows, thrown |-> TRUE]
    ELSE IF loaded.kind # "array" THEN [rows |-> <<>>, thrown |-> TRUE]
    ELSE [rows |-> [i \in 1..Len(loaded.items) |->
                       [index |-> i - 1,
                        text |-> loaded.items[i].text,
                        completed |-> loaded.items[i].checked]],
          thrown |-> FALSE]

\* renderChecklist(checklistElement)
renderChecklist(store, oldRows) == rowsOf(loadChecklist(store), oldRows)

\* the store saveChecklist left, with the rows renderChecklist built from it
saveResult(saved, rendered) ==
    [store |-> saved, rows |-> rendered.rows, thrown |-> rendered.thrown]

\* saveChecklist(items), then renderChecklist(checklistElement)
saveAndRender(saved, oldRows) == saveResult(saved, renderChecklist(saved, oldRows))

\* deleteItem, from what loadChecklist gave it
deleteLoaded(loaded, index, store, oldRows) ==
    IF loaded.thrown \/ loaded.kind # "array"
    THEN [store |-> store, rows |-> oldRows, thrown |-> TRUE]
    ELSE saveAndRender(saveChecklist(store, spliceOne(loaded.items, index)), oldRows)

\* deleteItem(index, checklistElement)
deleteItem(index, store, oldRows) ==
    deleteLoaded(loadChecklist(store), index, store, oldRows)

\* toggleItem, from what loadChecklist gave it; items[index] is undefined past the end
toggleLoaded(loaded, index, store, oldRows) ==
    IF loaded.thrown \/ loaded.kind # "array" \/ index >= Len(loaded.items)
    THEN [store |-> store, rows |-> oldRows, thrown |-> TRUE]
    ELSE saveAndRender(saveChecklist(store, flipChecked(loaded.items, index)), oldRows)

\* toggleItem(index, checklistElement)
toggleItem(index, store, oldRows) ==
    toggleLoaded(loadChecklist(store), index, store, oldRows)

\* the checklist after addItem has pushed, cleared the input, saved and rendered
addResult(result) ==
    [store |-> result.store, rows |-> result.rows, input |-> <<>>,
     thrown |-> result.thrown]

\* addLoaded without the return on an empty text
addLoadedUnguarded(loaded, text, input, store, oldRows) ==
    IF loaded.thrown \/ loaded.kind # "array"
    THEN [store |-> store, rows |-> oldRows, input |-> input, thrown |-> TRUE]
    ELSE addResult(saveAndRender(saveChecklist(store, pushItem(loaded.items, text)),
                                 oldRows))

\* addItem with the trimmed text, from what loadChecklist gave it
addLoaded(loaded, text, input, store, oldRows) ==
    IF text = <<>>
    THEN [store |-> store, rows |-> oldRows, input |-> input, thrown |-> FALSE]
    ELSE IF loaded.thrown \/ loaded.kind # "array"
    THEN [store |-> store, rows |-> oldRows, input |-> input, thrown |-> TRUE]
    ELSE addResult(saveAndRender(saveChecklist(store, pushItem(loaded.items, text)),
                                 oldRows))

\* addItem(inputBox, checklistElement)
addItem(input, store, oldRows) ==
    addLoaded(loadChecklist(store), trim(input), input, store, oldRows)

\* the delete button's listener without e.stopPropagation()
deletePropagates == FALSE

\* e.stopPropagation() in the delete button's click listener
deleteStopsPropagation == TRUE

\* what the two listeners of one click leave: the row's ran last
bubbleResult(deleted, toggled) ==
    [store |-> toggled.store, rows |-> toggled.rows,
     thrown |-> deleted.thrown \/ toggled.thrown]

\* the click reaches the row's listener after the button's listener has run:
\* toggleItem runs on what deleteItem left
bubbleToRow(index, deleted) ==
    bubbleResult(deleted, toggleItem(index, deleted.store, deleted.rows))

\* a click on the delete button of the row that captured index: the button's
\* listener runs, then the click bubbles to the row's listener unless stopped
deleteButtonClick(index, store, oldRows) ==
    IF deleteStopsPropagation THEN deleteItem(index, store, oldRows)
    ELSE bubbleToRow(index, deleteItem(index, store, oldRows))

---------------------------------------------------------------------------
(* 7. Calendar component.                                                  *)

\* getCalendarStorageKey without the month: `calendarNotes-${year}`
yearStorageKey(year, month) == "calendarNotes-" \o ToString(year)

\* getCalendarStorageKey
getCalendarStorageKey(year, month) ==
    "calendarNotes-" \o ToString(year) \o "-" \o ToString(month)

isLeapYear(year) == (year % 4 = 0 /\ year % 100 # 0) \/ year % 400 = 0

\* new Date(year, month + 1, 0).getDate(), month counted from 0
daysInMonth(year, month) ==
    IF month = 1 THEN (IF isLeapYear(year) THEN 29 ELSE 28)
    ELSE IF month \in {3, 5, 8, 10} THEN 30
    ELSE 31

\* new Date(year, month, 1).getDay(), month counted from 0: 0 is Sunday
firstDayOfMonth(year, month) ==
    LET offsets == <<0, 3, 2, 5, 0, 3, 5, 1, 4, 6, 2, 4>>
        y == IF month < 2 THEN year - 1 ELSE year
    IN  (y + (y \div 4) - (y \div 100) + (y \div 400) + offsets[month + 1] + 1) % 7

\* calendarOf that keeps the notes object of the month shown before
calendarOfCached(parsed, year, month, cal) ==
    IF parsed.thrown
    THEN [cal EXCEPT !.cells = <<>>, !.emptyDays = 0, !.monthYear = <<year, month>>,
                     !.thrown = TRUE]
    ELSE IF parsed.kind = "null"
    THEN [cal EXCEPT !.cells = <<>>, !.emptyDays = firstDayOfMonth(year, month),
                     !.monthYear = <<year, month>>, !.thrown = TRUE]
    ELSE [monthYear |-> <<year, month>>,
          emptyDays |-> firstDayOfMonth(year, month),
          cells |-> [i \in 1..daysInMonth(year, month) |->
                        IF i \in DOMAIN cal.savedNotes THEN cal.savedNotes[i] ELSE <<>>],
          notesKey |-> getCalendarStorageKey(year, month),
          savedNotes |-> cal.savedNotes,
          thrown |-> FALSE]

\* generateCalendar past its anchor check, from what JSON.parse gave it.
\* A stored null parses, and reading savedNotes[1] then throws after the
\* leading blanks are in place.  No array is ever stored under a calendar key.
calendarOf(parsed, year, month, cal) ==
    IF parsed.thrown
    THEN [cal EXCEPT !.cells = <<>>, !.emptyDays = 0, !.monthYear = <<year, month>>,
                     !.thrown = TRUE]
    ELSE IF parsed.kind = "null"
    THEN [cal EXCEPT !.cells = <<>>, !.emptyDays = firstDayOfMonth(year, month),
                     !.monthYear = <<year, month>>, !.thrown = TRUE]
    ELSE [monthYear |-> <<year, month>>,
          emptyDays |-> firstDayOfMonth(year, month),
          cells |-> [i \in 1..daysInMonth(year, month) |->
                        IF i \in DOMAIN parsed.notes THEN parsed.notes[i] ELSE <<>>],
          notesKey |-> getCalendarStorageKey(year, month),
          savedNotes |-> parsed.notes,
          thrown |-> FALSE]

\* localStorage.getItem(key) || '{}'
notesText(store, key) == IF truthyItem(store, key) THEN store[key] ELSE <<"{", "}">>

\* generateCalendar: what #month-year and #calendar-body show after it, the
\* key and the notes object its listeners capture, and whether it threw.
\* cal is the record of these before the call.
generateCalendar(store, year, month, anchors, cal) ==
    IF ~({"month-year", "calendar-body"} \subseteq anchors)
    THEN [cal EXCEPT !.thrown = FALSE]
    ELSE calendarOf(JSONparse(notesText(store, getCalendarStorageKey(year, month))),
                    year, month, cal)

\* savedNotes[i] = textarea.value
setNote(notes, i, value) ==
    [d \in DOMAIN notes \cup {i} |-> IF d = i THEN value ELSE notes[d]]

\* the notes object the listener holds, and the store with it written under key
notesSaved(store, key, updated) ==
    [store |-> setItem(store, key, stringifyNotes(updated)), savedNotes |-> updated]

\* the input listener of the textarea of day i: savedNotes[i] = textarea.value,
\* then the whole object is written under the captured key
noteInput(store, key, notes, i, value) ==
    notesSaved(store, key, setNote(notes, i, value))

\* wrapMonth without the year's change
wrapMonthOnly(year, moved) ==
    IF moved < 0 THEN [month |-> 11, year |-> year]
    ELSE IF moved > 11 THEN [month |-> 0, year |-> year]
    ELSE [month |-> moved, year |-> year]

\* the month and year navigateMonth leaves when month + direction is moved
wrapMonth(year, moved) ==
    IF moved < 0 THEN [month |-> 11, year |-> year - 1]
    ELSE IF moved > 11 THEN [month |-> 0, year |-> year + 1]
    ELSE [month |-> moved, year |-> year]

\* navigateMonth that adds 1 whatever the direction
navigateForward(year, month, direction) == wrapMonth(year, month + 1)

\* navigateMonth, before it calls generateCalendar: the month and year it leaves
navigateMonth(year, month, direction) == wrapMonth(year, month + direction)

---------------------------------------------------------------------------
(* 8. Theme selector component.                                            *)

DEFAULT_HEX == <<"#", "f", "f", "f", "f", "f", "f">>
COLOR_STORAGE_KEY == "accentColor"
ROOT_COLOR_VAR == "--accent-color"
ROOT_RGB_COLOR_VAR == "--accent-color-rgb"

HexDigits == <<"0", "1", "2", "3", "4", "5", "6", "7", "8", "9",
               "a", "b", "c", "d", "e", "f">>
UpperHexDigits == <<"0", "1", "2", "3", "4", "5", "6", "7", "8", "9",
                    "A", "B", "C", "D", "E", "F">>

\* [a-f\d] under the i flag
isHexDigit(c) == \E n \in 1..16 : HexDigits[n] = c \/ UpperHexDigits[n] = c

hexValue(c) == (CHOOSE n \in 1..16 : HexDigits[n] = c \/ UpperHexDigits[n] = c) - 1

\* the text after an optional leading "#"
sansHash(hex) == IF hex # <<>> /\ Head(hex) = "#" THEN Tail(hex) ELSE hex

\* expandShorthand that replaces nothing
keepShorthand(hex) == hex

\* hex.replace(shorthandRegex, ...): a three-digit colour becomes six digits, without its "#"
expandShorthand(hex) ==
    LET digits == sansHash(hex)
    IN  IF Len(digits) = 3 /\ \A n \in 1..3 : isHexDigit(digits[n])
        THEN <<digits[1], digits[1], digits[2], digits[2], digits[3], digits[3]>>
        ELSE hex

\* hexToRgb: the text "r, g, b", or the fallback text
hexToRgb(hex) ==
    LET digits == sansHash(expandShorthand(hex))
        byte(n) == 16 * hexValue(digits[n]) + hexValue(digits[n + 1])
    IN  IF Len(digits) = 6 /\ \A n \in 1..6 : isHexDigit(digits[n])
        THEN <<ToString(byte(1)), ",", " ", ToString(byte(3)), ",", " ", ToString(byte(5))>>
        ELSE <<"253", ",", " ", "224", ",", " ", "71">>

\* String.prototype.toUpperCase, on the characters a colour text is made of
toUpperCase(s) ==
    [n \in DOMAIN s |->
        IF \E d \in 1..16 : HexDigits[d] = s[n]
        THEN UpperHexDigits[CHOOSE d \in 1..16 : HexDigits[d] = s[n]]
        ELSE IF s[n] = "g" THEN "G"
        ELSE s[n]]

\* applyColor that derives the text "r, g, b" once and keeps it afterwards
applyColorKeepRgb(hexColor, store, css) ==
    [cssVars |-> [n \in DOMAIN css \cup {ROOT_COLOR_VAR, ROOT_RGB_COLOR_VAR} |->
                     IF n = ROOT_COLOR_VAR THEN hexColor
                     ELSE IF n \in DOMAIN css THEN css[n]
                     ELSE hexToRgb(hexColor)],
     store |-> setItem(store, COLOR_STORAGE_KEY, hexColor)]

\* applyColor: the root custom properties and the store after it
applyColor(hexColor, store, css) ==
    [cssVars |-> [n \in DOMAIN css \cup {ROOT_COLOR_VAR, ROOT_RGB_COLOR_VAR} |->
                     IF n = ROOT_COLOR_VAR THEN hexColor
                     ELSE IF n = ROOT_RGB_COLOR_VAR THEN hexToRgb(hexColor)
                     ELSE css[n]],
     store |-> setItem(store, COLOR_STORAGE_KEY, hexColor)]

\* applyColor, step 3: the value of the picker after it, when inputElement is
\* the picker of a page that holds one, and null otherwise
pickerAfter(hexColor, anchors, picker) ==
    IF "accentColorPicker" \in anchors THEN hexColor ELSE picker

\* applyColor, step 4: the text of #hexDisplay after it
hexDisplayAfter(hexColor, anchors, display) ==
    IF "hexDisplay" \in anchors
    THEN <<"Current Hex: ">> \o toUpperCase(hexColor)
    ELSE display

---------------------------------------------------------------------------
(* 3. Wallpaper toggle.                                                    *)

WALLPAPER_STORAGE_KEY == "wallpaperState"

\* setWallpaperState: what is displayed and the store after it
setWallpaperState(state, store, anchors) ==
    [wallpaper |-> IF state = <<"video">> /\ "video-background" \in anchors
                   THEN "video" ELSE "image",
     store |-> setItem(store, WALLPAPER_STORAGE_KEY, state)]

---------------------------------------------------------------------------
(* The documents the script is loaded in, and what the store holds then.   *)

Anchors == {"clock", "date", "hamburger-menu", "sidebar", "toggle-wallpaper-btn",
            ".video-container", "video-background", "notepad", "passwordInput",
            "keyboard", "inputBox", "checklist", "month-year", "calendar-body",
            "prev-month", "next-month", "accentColorPicker", "hexDisplay"}

FullPage == Anchors
BarePage == {}
LockPage == {"passwordInput", "keyboard"}
ChecklistPage == {"clock", "date", "inputBox", "checklist"}
CalendarPage == {"month-year", "calendar-body", "prev-month", "next-month"}
\* pages that hold only a part of a widget's anchors
NavOnlyPage == {"prev-month", "next-month"}
HalfPage == {"hamburger-menu", "toggle-wallpaper-btn", "inputBox", "month-year",
             "keyboard", "next-month"}
NoVideoPage == {"toggle-wallpaper-btn", ".video-container", "accentColorPicker"}

Pages == {FullPage, BarePage, LockPage, ChecklistPage, CalendarPage, NavOnlyPage,
          HalfPage, NoVideoPage}

NoItems == <<>>

OneItem == [text |-> <<"a">>, checked |-> FALSE]

\* what localStorage holds under the checklist key when the page loads:
\* nothing, the empty string, arrays the script wrote, a truncated text,
\* an object, null
ChecklistStores ==
    {NoItems,
     CHECKLIST_STORAGE_KEY :> <<>>,
     CHECKLIST_STORAGE_KEY :> stringifyItems(<<>>),
     CHECKLIST_STORAGE_KEY :> stringifyItems(<<OneItem>>),
     CHECKLIST_STORAGE_KEY :> <<"[", "{">>,
     CHECKLIST_STORAGE_KEY :> <<"{", "}">>,
     CHECKLIST_STORAGE_KEY :> <<"null">>}

\* what localStorage holds under the key of the month the page loads in:
\* nothing, an object the script wrote, a truncated text, null
CalendarStores(year, month) ==
    {NoItems,
     getCalendarStorageKey(year, month) :> stringifyNotes(1 :> <<"a">>),
     getCalendarStorageKey(year, month) :> <<"{", dayKey(1)>>,
     getCalendarStorageKey(year, month) :> <<"null">>}

NoCalendar == [monthYear |-> <<>>, emptyDays |-> 0, cells |-> <<>>,
               notesKey |-> "", savedNotes |-> <<>>, thrown |-> FALSE]

calendar == [monthYear |-> monthYear, emptyDays |-> emptyDays, cells |-> cells,
             notesKey |-> notesKey, savedNotes |-> savedNotes, thrown |-> FALSE]

\* the store, the checklist, the month and the passcode as an event finds them
Snapshot == [store |-> localStorage, input |-> inputBox, rows |-> rows,
             year |-> currentYear, month |-> currentMonth, password |-> passwordInput]

\* an event of this type was dispatched, and its listeners ended by throwing or not
Dispatched(type, arg, threw) ==
    /\ lastEvent' = [type |-> type, arg |-> arg, thrown |-> threw]
    /\ before' = Snapshot

\* the state once the script has been evaluated, before DOMContentLoaded
InitWith(pages, months, checklistStores, withCalendarStores, otherStores) ==
    /\ pc = "initClock"
    /\ page \in pages
    /\ currentYear = LoadYear
    /\ currentMonth \in months
    /\ \E c \in checklistStores :
         \E n \in (IF withCalendarStores THEN CalendarStores(currentYear, currentMonth)
                   ELSE {NoItems}) :
            \E o \in otherStores : localStorage = c @@ n @@ o
    /\ listeners = {}
    /\ timers = {}
    /\ ran = {}
    /\ inputBox = <<>>
    /\ rows = <<>>
    /\ monthYear = NoCalendar.monthYear
    /\ emptyDays = NoCalendar.emptyDays
    /\ cells = NoCalendar.cells
    /\ notesKey = NoCalendar.notesKey
    /\ savedNotes = NoCalendar.savedNotes
    /\ wallpaper = "untouched"
    /\ cssVars = <<>>
    /\ pickerValue = <<>>
    /\ hexDisplay = <<>>
    /\ passwordInput = <<>>
    /\ location = "loaded"
    /\ alerts = FALSE
    /\ entered = <<>>
    /\ navs = 0
    /\ edits = 0
    /\ lastEvent = [type |-> "none", arg |-> 0, thrown |-> FALSE]
    /\ before = Snapshot

---------------------------------------------------------------------------
(* The DOMContentLoaded handler, one step per initializer it calls.  An    *)
(* exception thrown by an initializer is caught nowhere: the handler ends. *)

calendarVars == <<monthYear, emptyDays, cells, notesKey, savedNotes>>

themeVars == <<cssVars, pickerValue, hexDisplay>>

keypadVars == <<passwordInput, location, alerts>>

\* the handler calls initializer name, which ends normally or throws
Called(name, next, threw) ==
    /\ pc = name
    /\ ran' = ran \cup {name}
    /\ pc' = IF threw THEN "aborted" ELSE next
    /\ Dispatched("DOMContentLoaded", 0, threw)
    /\ UNCHANGED <<page, currentMonth, currentYear, inputBox, keypadVars, entered,
                   navs, edits>>

InitClock ==
    /\ Called("initClock", "initSidebarToggle", FALSE)
    /\ timers' = timers \cup {"updateClock"}
    /\ UNCHANGED <<localStorage, listeners, rows, calendarVars, wallpaper, themeVars>>

\* initSidebarToggle with its check of #sidebar left out
InitSidebarToggleUnchecked ==
    /\ Called("initSidebarToggle", "initWallpaperToggle", FALSE)
    /\ listeners' = IF "hamburger-menu" \in page
                    THEN listeners \cup {<<"hamburger-menu", "click">>}
                    ELSE listeners
    /\ UNCHANGED <<localStorage, timers, rows, calendarVars, wallpaper, themeVars>>

InitSidebarToggle ==
    /\ Called("initSidebarToggle", "initWallpaperToggle", FALSE)
    /\ listeners' = IF {"hamburger-menu", "sidebar"} \subseteq page
                    THEN listeners \cup {<<"hamburger-menu", "click">>}
                    ELSE listeners
    /\ UNCHANGED <<localStorage, timers, rows, calendarVars, wallpaper, themeVars>>

\* localStorage.getItem(WALLPAPER_STORAGE_KEY) || 'video'
savedWallpaperState(store) ==
    IF truthyItem(store, WALLPAPER_STORAGE_KEY) THEN store[WALLPAPER_STORAGE_KEY]
    ELSE <<"video">>

\* what setWallpaperState left is displayed and stored
WallpaperSet(set) ==
    /\ wallpaper' = set.wallpaper
    /\ localStorage' = set.store

InitWallpaperToggle ==
    /\ Called("initWallpaperToggle", "initTextBoxStorage", FALSE)
    /\ IF {"toggle-wallpaper-btn", ".video-container"} \subseteq page
       THEN /\ WallpaperSet(setWallpaperState(savedWallpaperState(localStorage),
                                              localStorage, page))
            /\ listeners' = listeners \cup {<<"toggle-wallpaper-btn", "click">>}
       ELSE UNCHANGED <<wallpaper, localStorage, listeners>>
    /\ UNCHANGED <<timers, rows, calendarVars, themeVars>>

InitTextBoxStorage ==
    /\ Called("initTextBoxStorage", "initPasswordProtection", FALSE)
    /\ listeners' = IF "notepad" \in page
                    THEN listeners \cup {<<"notepad", "input">>}
                    ELSE listeners
    /\ UNCHANGED <<localStorage, timers, rows, calendarVars, wallpaper, themeVars>>

InitPasswordProtection ==
    /\ Called("initPasswordProtection", "initKeyboardInput", FALSE)
    /\ UNCHANGED <<localStorage, listeners, timers, rows, calendarVars, wallpaper, themeVars>>

InitKeyboardInput ==
    /\ Called("initKeyboardInput", "initChecklist", FALSE)
    /\ listeners' = IF {"keyboard", "passwordInput"} \subseteq page
                    THEN listeners \cup {<<"keyboard", "click">>}
                    ELSE listeners
    /\ UNCHANGED <<localStorage, timers, rows, calendarVars, wallpaper, themeVars>>

\* initChecklist past its anchor check, with what renderChecklist left
ChecklistRendered(rendered) ==
    /\ Called("initChecklist", "generateCalendar", rendered.thrown)
    /\ rows' = rendered.rows
    /\ listeners' = IF rendered.thrown THEN listeners
                    ELSE listeners \cup {<<"inputBox", "keypress">>}

InitChecklist ==
    /\ IF {"inputBox", "checklist"} \subseteq page
       THEN ChecklistRendered(renderChecklist(localStorage, rows))
       ELSE /\ Called("initChecklist", "generateCalendar", FALSE)
            /\ UNCHANGED <<rows, listeners>>
    /\ UNCHANGED <<localStorage, timers, calendarVars, wallpaper, themeVars>>

\* the calendar the document shows becomes cal
ShowCalendar(cal) ==
    /\ monthYear' = cal.monthYear
    /\ emptyDays' = cal.emptyDays
    /\ cells' = cal.cells
    /\ notesKey' = cal.notesKey
    /\ savedNotes' = cal.savedNotes

\* the handler's call of generateCalendar has left cal
CalendarGenerated(cal) ==
    /\ Called("generateCalendar", "initThemeSelector", cal.thrown)
    /\ ShowCalendar(cal)

GenerateCalendar ==
    /\ CalendarGenerated(generateCalendar(localStorage, currentYear, currentMonth,
                                          page, calendar))
    /\ UNCHANGED <<localStorage, listeners, timers, rows, wallpaper, themeVars>>

\* localStorage.getItem(COLOR_STORAGE_KEY) || DEFAULT_HEX
initialColor(store) ==
    IF truthyItem(store, COLOR_STORAGE_KEY) THEN store[COLOR_STORAGE_KEY] ELSE DEFAULT_HEX

\* what applyColor left is in the root style and the store
ColorApplied(applied) ==
    /\ cssVars' = applied.cssVars
    /\ localStorage' = applied.store

InitThemeSelector ==
    /\ Called("initThemeSelector", "initCalendarNavigationListeners", FALSE)
    /\ ColorApplied(applyColor(initialColor(localStorage), localStorage, cssVars))
    /\ pickerValue' = pickerAfter(initialColor(localStorage), page, pickerValue)
    /\ hexDisplay' = hexDisplayAfter(initialColor(localStorage), page, hexDisplay)
    /\ listeners' = IF "accentColorPicker" \in page
                    THEN listeners \cup {<<"accentColorPicker", "input">>,
                                         <<"accentColorPicker", "change">>}
                    ELSE listeners
    /\ UNCHANGED <<timers, rows, calendarVars, wallpaper>>

InitCalendarNavigationListeners ==
    /\ Called("initCalendarNavigationListeners", "done", FALSE)
    /\ listeners' = listeners
                    \cup (IF "prev-month" \in page THEN {<<"prev-month", "click">>} ELSE {})
                    \cup (IF "next-month" \in page THEN {<<"next-month", "click">>} ELSE {})
    /\ UNCHANGED <<localStorage, timers, rows, calendarVars, wallpaper, themeVars>>

NextLoad ==
    \/ InitClock
    \/ InitSidebarToggle
    \/ InitWallpaperToggle
    \/ InitTextBoxStorage
    \/ InitPasswordProtection
    \/ InitKeyboardInput
    \/ InitChecklist
    \/ GenerateCalendar
    \/ InitThemeSelector
    \/ InitCalendarNavigationListeners

\* the handler has returned or thrown, and the window still shows the
\* document: the event loop dispatches the next event
Idle == pc \in {"done", "aborted"} /\ location = "loaded"

InitLoad == InitWith(Pages, {0}, ChecklistStores, TRUE, {NoItems})

SpecLoad == InitLoad /\ [][NextLoad]_vars

---------------------------------------------------------------------------
(* Events on the checklist.                                                *)

checklistFrame == <<pc, page, listeners, timers, ran, currentMonth, currentYear,
                    calendarVars, wallpaper, themeVars, keypadVars, entered, navs, edits>>

\* the user edits the text of #inputBox
TypeInput ==
    /\ Idle
    /\ "inputBox" \in page
    /\ \E text \in InputTexts :
         /\ inputBox' = text
         /\ Dispatched("type", Len(text), FALSE)
    /\ UNCHANGED <<localStorage, rows, checklistFrame>>

\* a listener of the checklist has left result
ChecklistEvent(type, arg, result) ==
    /\ localStorage' = result.store
    /\ rows' = result.rows
    /\ Dispatched(type, arg, result.thrown)

\* addItem has left added
ItemAdded(added) ==
    /\ ChecklistEvent("enter", 0, added)
    /\ inputBox' = added.input

\* Enter is pressed in #inputBox: the keypress listener calls addItem
PressEnter ==
    /\ Idle
    /\ <<"inputBox", "keypress">> \in listeners
    /\ Len(rows) < MaxItems \/ trim(inputBox) = <<>>
    /\ ItemAdded(addItem(inputBox, localStorage, rows))
    /\ UNCHANGED checklistFrame

\* a click on a row outside its delete button: the row's listener calls toggleItem
ClickRow ==
    /\ Idle
    /\ \E r \in DOMAIN rows :
         ChecklistEvent("rowClick", rows[r].index, toggleItem(rows[r].index, localStorage, rows))
    /\ UNCHANGED <<inputBox, checklistFrame>>

\* a click on the delete button of a row
ClickDelete ==
    /\ Idle
    /\ \E r \in DOMAIN rows :
         ChecklistEvent("deleteClick", rows[r].index,
                        deleteButtonClick(rows[r].index, localStorage, rows))
    /\ UNCHANGED <<inputBox, checklistFrame>>

NextChecklist ==
    \/ NextLoad
    \/ TypeInput
    \/ PressEnter
    \/ ClickRow
    \/ ClickDelete

InitChecklistPages ==
    InitWith({ChecklistPage, HalfPage}, {0}, ChecklistStores, FALSE, {NoItems})

SpecChecklist == InitChecklistPages /\ [][NextChecklist]_vars

---------------------------------------------------------------------------
(* Events on the calendar.                                                 *)

calendarFrame == <<pc, page, listeners, timers, ran, inputBox, rows, wallpaper,
                   themeVars, keypadVars>>

\* navigateMonth's call of generateCalendar has left cal
CalendarNavigated(button, direction, cal) ==
    /\ ShowCalendar(cal)
    /\ Dispatched(button, direction, cal.thrown)

\* navigateMonth has moved to moved, and calls generateCalendar
MonthMoved(button, direction, moved) ==
    /\ currentMonth' = moved.month
    /\ currentYear' = moved.year
    /\ CalendarNavigated(button, direction,
                         generateCalendar(localStorage, moved.year, moved.month,
                                          page, calendar))

\* a click on #prev-month (direction -1) or #next-month (direction 1)
Navigate(button, direction) ==
    /\ Idle
    /\ <<button, "click">> \in listeners
    /\ navs < MaxNavs
    /\ MonthMoved(button, direction, navigateMonth(currentYear, currentMonth, direction))
    /\ navs' = navs + 1
    /\ UNCHANGED <<localStorage, entered, edits, calendarFrame>>

ClickPrevMonth == Navigate("prev-month", -1)

ClickNextMonth == Navigate("next-month", 1)

\* the input listener has left saved
NoteSaved(saved) ==
    /\ savedNotes' = saved.savedNotes
    /\ localStorage' = saved.store

\* the user edits the textarea of a day: its input listener saves the notes
EditNote ==
    /\ Idle
    /\ edits < MaxEdits
    /\ \E i \in DOMAIN cells \cap (1..MaxEditDay), value \in NoteTexts :
         /\ cells' = [cells EXCEPT ![i] = value]
         /\ NoteSaved(noteInput(localStorage, notesKey, savedNotes, i, value))
         /\ entered' = setNote(entered, <<monthYear[1], monthYear[2], i>>, value)
         /\ Dispatched("noteInput", i, FALSE)
    /\ edits' = edits + 1
    /\ UNCHANGED <<currentMonth, currentYear, monthYear, emptyDays, notesKey, navs,
                   calendarFrame>>

NextCalendar ==
    \/ NextLoad
    \/ ClickPrevMonth
    \/ ClickNextMonth
    \/ EditNote

InitCalendarPages ==
    InitWith({CalendarPage, NavOnlyPage}, 0..11, {NoItems}, TRUE, {NoItems})

SpecCalendar == InitCalendarPages /\ [][NextCalendar]_vars

---------------------------------------------------------------------------
(* Events on the colour picker.                                            *)

themeFrame == <<pc, page, listeners, timers, ran, inputBox, rows, currentMonth,
                currentYear, calendarVars, wallpaper, keypadVars, entered, navs, edits>>

\* what localStorage holds under the accentColor key when the page loads:
\* nothing, or a shorthand colour
ColorStores ==
    {NoItems,
     COLOR_STORAGE_KEY :> <<"#", "0", "a", "F">>}

\* the picker's listener has called applyColor(event.target.value, colorInput).
\* applyColor reads nothing of the store, the checklist or the month, and the
\* snapshot of these is left as it was.
ColorPicked(type, value, applied) ==
    /\ ColorApplied(applied)
    /\ pickerValue' = pickerAfter(value, page, value)
    /\ hexDisplay' = hexDisplayAfter(value, page, hexDisplay)
    /\ lastEvent' = [type |-> type, arg |-> Len(value), thrown |-> FALSE]
    /\ UNCHANGED before

\* the picker is given a value and dispatches an event of this type
ColorEvent(type) ==
    /\ Idle
    /\ <<"accentColorPicker", type>> \in listeners
    /\ \E value \in ColorTexts :
         ColorPicked(type, value, applyColor(value, localStorage, cssVars))
    /\ UNCHANGED themeFrame

ColorInput == ColorEvent("input")

ColorChange == ColorEvent("change")

NextTheme ==
    \/ NextLoad
    \/ ColorInput
    \/ ColorChange

InitThemePages ==
    InitWith({FullPage, NoVideoPage, BarePage}, {0}, {NoItems}, FALSE, ColorStores)

SpecTheme == InitThemePages /\ [][NextTheme]_vars

---------------------------------------------------------------------------
(* Events on the wallpaper toggle.                                         *)

wallpaperFrame == <<pc, page, listeners, timers, ran, inputBox, rows, currentMonth,
                    currentYear, calendarVars, themeVars, keypadVars, entered, navs,
                    edits>>

\* what localStorage holds under the wallpaperState key when the page loads:
\* nothing, the two values the script writes, the empty string, another text
WallpaperStores ==
    {NoItems,
     WALLPAPER_STORAGE_KEY :> <<"video">>,
     WALLPAPER_STORAGE_KEY :> <<"image">>,
     WALLPAPER_STORAGE_KEY :> <<>>,
     WALLPAPER_STORAGE_KEY :> <<"dark">>}

\* localStorage.getItem(WALLPAPER_STORAGE_KEY) === 'video' ? 'image' : 'video'
toggledState(store) ==
    IF hasItem(store, WALLPAPER_STORAGE_KEY) /\ store[WALLPAPER_STORAGE_KEY] = <<"video">>
    THEN <<"image">>
    ELSE <<"video">>

\* a click on #toggle-wallpaper-btn: its listener sets the other state
ClickWallpaper ==
    /\ Idle
    /\ <<"toggle-wallpaper-btn", "click">> \in listeners
    /\ WallpaperSet(setWallpaperState(toggledState(localStorage), localStorage, page))
    /\ Dispatched("wallpaperClick", 0, FALSE)
    /\ UNCHANGED wallpaperFrame

NextWallpaper ==
    \/ NextLoad
    \/ ClickWallpaper

InitWallpaperPages ==
    InitWith({FullPage, NoVideoPage, HalfPage}, {0}, {NoItems}, FALSE, WallpaperStores)

SpecWallpaper == InitWallpaperPages /\ [][NextWallpaper]_vars

---------------------------------------------------------------------------
(* Events on the on-screen keyboard.                                       *)

keypadFrame == <<pc, page, localStorage, listeners, timers, ran, inputBox, rows,
                 currentMonth, currentYear, calendarVars, wallpaper, themeVars,
                 entered, navs, edits>>

\* the data-key values of the keys that hold one character
KeyValues == {"1", "2", "3", "4", "t", "w"}

\* a click somewhere in #keyboard reaches its listener
KeyboardClick == Idle /\ <<"keyboard", "click">> \in listeners

\* a click outside every .key: the listener returns at once
ClickOffKey ==
    /\ KeyboardClick
    /\ Dispatched("offKey", 0, FALSE)
    /\ alerts' = FALSE
    /\ UNCHANGED <<passwordInput, location, keypadFrame>>

\* a click on a key of one character
ClickKey ==
    /\ KeyboardClick
    /\ \E keyValue \in KeyValues : passwordInput' = keyed(passwordInput, keyValue)
    /\ Dispatched("key", 0, FALSE)
    /\ alerts' = FALSE
    /\ UNCHANGED <<location, keypadFrame>>

\* a click on the key whose data-key is backspace
ClickBackspace ==
    /\ KeyboardClick
    /\ passwordInput' = backspaced(passwordInput)
    /\ Dispatched("backspace", 0, FALSE)
    /\ alerts' = FALSE
    /\ UNCHANGED <<location, keypadFrame>>

\* checkPassword has left checked
PasswordChecked(checked) ==
    /\ location' = checked.location
    /\ alerts' = checked.alerts

\* a click on the key whose data-key is submit
ClickSubmit ==
    /\ KeyboardClick
    /\ PasswordChecked(checkPassword(passwordInput))
    /\ Dispatched("submit", 0, FALSE)
    /\ UNCHANGED <<passwordInput, keypadFrame>>

NextKeypad ==
    \/ NextLoad
    \/ ClickOffKey
    \/ ClickKey
    \/ ClickBackspace
    \/ ClickSubmit

InitKeypadPages == InitWith({LockPage, FullPage, HalfPage}, {0}, {NoItems}, FALSE, {NoItems})

SpecKeypad == InitKeypadPages /\ [][NextKeypad]_vars

---------------------------------------------------------------------------
(* The whole page.                                                         *)

Init == InitWith({FullPage}, {11}, {NoItems}, FALSE, {NoItems})

Next ==
    \/ NextLoad
    \/ TypeInput
    \/ PressEnter
    \/ ClickRow
    \/ ClickDelete
    \/ ClickPrevMonth
    \/ ClickNextMonth
    \/ EditNote
    \/ ColorInput
    \/ ColorChange
    \/ ClickWallpaper
    \/ ClickOffKey
    \/ ClickKey
    \/ ClickBackspace
    \/ ClickSubmit

Spec == Init /\ [][Next]_vars

---------------------------------------------------------------------------
(* Properties of the checklist.  Each is stated of the last event: of what *)
(* localStorage and the document held when it was dispatched (before) and  *)
(* of what they hold now that its listeners have run.                      *)

\* the sequence of items that localStorage holds
StoredItems == loadChecklist(localStorage).items

\* the sequence of items that localStorage held when the last event was dispatched
ItemsBefore == loadChecklist(before.store).items

\* s holds nothing but spaces
IsBlank(s) == \A n \in DOMAIN s : s[n] = " "

\* t is s without the spaces at its two ends
IsTrimOf(t, s) ==
    \E first, last \in 1..Len(s) :
       /\ t = SubSeq(s, first, last)
       /\ s[first] # " "
       /\ s[last] # " "
       /\ \A n \in 1..(first - 1) : s[n] = " "
       /\ \A n \in (last + 1)..Len(s) : s[n] = " "

\* C1: deleteItem(k) on a stored checklist of n >= 1 items, 0 <= k < n,
\* leaves n - 1 stored items: those formerly before k are where they were and
\* every one formerly at j > k is now at j - 1.
C1_DeleteShiftsLaterItems ==
    lastEvent.type = "deleteClick" =>
       /\ lastEvent.arg < Len(ItemsBefore)
       /\ Len(StoredItems) = Len(ItemsBefore) - 1
       /\ \A j \in 1..lastEvent.arg : StoredItems[j] = ItemsBefore[j]
       /\ \A j \in (lastEvent.arg + 2)..Len(ItemsBefore) : StoredItems[j - 1] = ItemsBefore[j]

\* the first of two distinct stored items has been deleted: the second is now first
C1_Witness ==
    /\ lastEvent.type = "deleteClick"
    /\ lastEvent.arg = 0
    /\ ItemsBefore = <<[text |-> <<"a">>, checked |-> FALSE],
                       [text |-> <<"a", "a">>, checked |-> TRUE]>>
    /\ StoredItems = <<[text |-> <<"a", "a">>, checked |-> TRUE]>>

\* C2: toggleItem(k) negates the checked field of the stored item at k and
\* leaves the length, the order, every text and every other checked field.
C2_ToggleFlipsOnlyOne ==
    lastEvent.type = "rowClick" =>
       /\ lastEvent.arg < Len(ItemsBefore)
       /\ Len(StoredItems) = Len(ItemsBefore)
       /\ \A j \in 1..Len(ItemsBefore) :
             /\ StoredItems[j].text = ItemsBefore[j].text
             /\ StoredItems[j].checked =
                   IF j = lastEvent.arg + 1 THEN ~ItemsBefore[j].checked
                   ELSE ItemsBefore[j].checked

\* the second of two items, checked like the first, has been toggled back to unchecked
C2_Witness ==
    /\ lastEvent.type = "rowClick"
    /\ lastEvent.arg = 1
    /\ Len(ItemsBefore) = 2
    /\ ItemsBefore[1].checked
    /\ ItemsBefore[2].checked
    /\ StoredItems[1].checked
    /\ ~StoredItems[2].checked

\* C5: addItem with a text that is empty after trimming changes nothing: the
\* store keeps its keys and values (an absent checklistItems key stays
\* absent, so nothing was written), no row is added and the input is kept.
C5_BlankAddIsNoOp ==
    (lastEvent.type = "enter" /\ IsBlank(before.input)) =>
       /\ localStorage = before.store
       /\ rows = before.rows
       /\ inputBox = before.input
       /\ ~lastEvent.thrown

\* Enter was pressed on a text of one space while the key was absent
C5_Witness ==
    /\ lastEvent.type = "enter"
    /\ before.input = <<" ">>
    /\ ~hasItem(before.store, CHECKLIST_STORAGE_KEY)
    /\ ~hasItem(localStorage, CHECKLIST_STORAGE_KEY)

\* C6: addItem with a text that is not empty after trimming appends the one
\* record {text: trimmed text, checked: false} to the stored sequence, leaves
\* the items stored before where they were, and clears the input.
C6_AddAppendsOneItem ==
    (lastEvent.type = "enter" /\ ~IsBlank(before.input)) =>
       /\ Len(StoredItems) = Len(ItemsBefore) + 1
       /\ \A j \in 1..Len(ItemsBefore) : StoredItems[j] = ItemsBefore[j]
       /\ IsTrimOf(StoredItems[Len(StoredItems)].text, before.input)
       /\ StoredItems[Len(StoredItems)].checked = FALSE
       /\ inputBox = <<>>
       /\ ~lastEvent.thrown

\* a second item was appended behind a checked first one, from a padded text
C6_Witness ==
    /\ lastEvent.type = "enter"
    /\ before.input = <<" ", "a">>
    /\ ItemsBefore = <<[text |-> <<"a", "a">>, checked |-> TRUE]>>
    /\ StoredItems = <<[text |-> <<"a", "a">>, checked |-> TRUE],
                       [text |-> <<"a">>, checked |-> FALSE]>>

\* C10: a click on the delete button of row k runs deleteItem(k) once and no
\* toggleItem: the stored sequence loses item k, every item left keeps its
\* text and its checked field, the rows show them so, and no listener throws.
C10_DeleteClickDoesNotToggle ==
    lastEvent.type = "deleteClick" =>
       /\ ~lastEvent.thrown
       /\ Len(StoredItems) = Len(ItemsBefore) - 1
       /\ \A j \in 1..Len(StoredItems) :
             /\ StoredItems[j].checked =
                   ItemsBefore[IF j <= lastEvent.arg THEN j ELSE j + 1].checked
             /\ StoredItems[j].text =
                   ItemsBefore[IF j <= lastEvent.arg THEN j ELSE j + 1].text
       /\ Len(rows) = Len(StoredItems)
       /\ \A j \in 1..Len(rows) : rows[j].completed = StoredItems[j].checked

\* the first of two unchecked rows was deleted and the row that took its place
\* is still unchecked
C10_Witness ==
    /\ lastEvent.type = "deleteClick"
    /\ lastEvent.arg = 0
    /\ Len(before.rows) = 2
    /\ ~before.rows[2].completed
    /\ Len(rows) = 1
    /\ ~rows[1].completed

---------------------------------------------------------------------------
(* Properties of the page load.                                            *)

Initializers == {"initClock", "initSidebarToggle", "initWallpaperToggle",
                 "initTextBoxStorage", "initPasswordProtection", "initKeyboardInput",
                 "initChecklist", "generateCalendar", "initThemeSelector",
                 "initCalendarNavigationListeners"}

\* the checklistItems key holds a text that parses as a JSON array
StoredIsArray ==
    /\ hasItem(localStorage, CHECKLIST_STORAGE_KEY)
    /\ JSONparse(localStorage[CHECKLIST_STORAGE_KEY]).kind = "array"

\* C3: loadChecklist returns the empty sequence, and does not throw, whenever
\* the checklistItems key is absent or holds a text that does not parse as a
\* JSON array.
C3_LoadChecklistNeverThrows ==
    ("initChecklist" \in ran /\ ~StoredIsArray) => loadChecklist(localStorage) = EmptyArray

\* C4: when the DOMContentLoaded handler has ended, every initializer has
\* been called, whether or not one of them failed.
C4_EveryInitializerRuns ==
    Idle => ran = Initializers

\* C9: a widget whose anchors are absent registers no listener and no timer
\* and does no further work: no write to the store, no change to the document.
C9_AbsentWidgetsDoNothing ==
    /\ {"clock", "date"} \cap page = {} => timers = {}
    /\ ~({"hamburger-menu", "sidebar"} \subseteq page) =>
          <<"hamburger-menu", "click">> \notin listeners
    /\ ~({"toggle-wallpaper-btn", ".video-container"} \subseteq page) =>
          /\ <<"toggle-wallpaper-btn", "click">> \notin listeners
          /\ wallpaper = "untouched"
          /\ ~hasItem(localStorage, WALLPAPER_STORAGE_KEY)
    /\ "notepad" \notin page => <<"notepad", "input">> \notin listeners
    /\ ~({"keyboard", "passwordInput"} \subseteq page) =>
          <<"keyboard", "click">> \notin listeners
    /\ ~({"inputBox", "checklist"} \subseteq page) =>
          /\ <<"inputBox", "keypress">> \notin listeners
          /\ rows = <<>>
    /\ ~({"month-year", "calendar-body"} \subseteq page) =>
          calendar = NoCalendar
    /\ "prev-month" \notin page => <<"prev-month", "click">> \notin listeners
    /\ "next-month" \notin page => <<"next-month", "click">> \notin listeners
    /\ "accentColorPicker" \notin page =>
          /\ <<"accentColorPicker", "input">> \notin listeners
          /\ <<"accentColorPicker", "change">> \notin listeners
          /\ cssVars = <<>>
          /\ ~hasItem(localStorage, COLOR_STORAGE_KEY)

\* C9 as the script has it: initClock registers its timer and
\* initThemeSelector applies and stores the accent colour on every page; every
\* other initializer, and the listeners of the theme selector, are as claimed.
C9_AbsentWidgetsExceptClockAndTheme ==
    /\ "initClock" \in ran => timers = {"updateClock"}
    /\ "initThemeSelector" \in ran =>
          /\ hasItem(localStorage, COLOR_STORAGE_KEY)
          /\ DOMAIN cssVars = {ROOT_COLOR_VAR, ROOT_RGB_COLOR_VAR}
          /\ cssVars[ROOT_COLOR_VAR] = localStorage[COLOR_STORAGE_KEY]
    /\ ~({"hamburger-menu", "sidebar"} \subseteq page) =>
          <<"hamburger-menu", "click">> \notin listeners
    /\ ~({"toggle-wallpaper-btn", ".video-container"} \subseteq page) =>
          /\ <<"toggle-wallpaper-btn", "click">> \notin listeners
          /\ wallpaper = "untouched"
          /\ ~hasItem(localStorage, WALLPAPER_STORAGE_KEY)
    /\ "notepad" \notin page => <<"notepad", "input">> \notin listeners
    /\ ~({"keyboard", "passwordInput"} \subseteq page) =>
          <<"keyboard", "click">> \notin listeners
    /\ ~({"inputBox", "checklist"} \subseteq page) =>
          /\ <<"inputBox", "keypress">> \notin listeners
          /\ rows = <<>>
    /\ ~({"month-year", "calendar-body"} \subseteq page) =>
          calendar = NoCalendar
    /\ "prev-month" \notin page => <<"prev-month", "click">> \notin listeners
    /\ "next-month" \notin page => <<"next-month", "click">> \notin listeners
    /\ "accentColorPicker" \notin page =>
          /\ <<"accentColorPicker", "input">> \notin listeners
          /\ <<"accentColorPicker", "change">> \notin listeners

\* the handler has ended on the page that holds one anchor of each widget:
\* the one listener is that of #next-month, the timer runs and the colour is stored
C9_Witness ==
    /\ pc = "done"
    /\ page = HalfPage
    /\ listeners = {<<"next-month", "click">>}
    /\ timers = {"updateClock"}
    /\ localStorage[COLOR_STORAGE_KEY] = DEFAULT_HEX

---------------------------------------------------------------------------
(* Properties of the calendar.                                             *)

\* the years a behaviour can reach from the year of the load
Years == (LoadYear - 1)..(LoadYear + 1)

\* two stores hold the same under key: both nothing, or the same text
sameItem(store, other, key) ==
    /\ hasItem(store, key) <=> hasItem(other, key)
    /\ hasItem(store, key) => store[key] = other[key]

\* C7: an input event on a day cell writes under the key of the (year, month)
\* that was displayed when the cell was rendered, which is the one displayed
\* still, and what the store holds for every other (year, month) is as it was.
C7_NotesIsolatedPerMonth ==
    lastEvent.type = "noteInput" =>
       /\ monthYear = <<currentYear, currentMonth>>
       /\ notesKey = getCalendarStorageKey(currentYear, currentMonth)
       /\ hasItem(localStorage, notesKey)
       /\ JSONparse(localStorage[notesKey]).notes[lastEvent.arg] = cells[lastEvent.arg]
       /\ \A y \in Years, m \in 0..11 :
             <<y, m>> # <<currentYear, currentMonth>> =>
                sameItem(localStorage, before.store, getCalendarStorageKey(y, m))

\* a note was entered for day 1 of February while January held one for day 2
C7_Witness ==
    /\ lastEvent.type = "noteInput"
    /\ lastEvent.arg = 1
    /\ currentYear = LoadYear
    /\ currentMonth = 1
    /\ cells[1] = <<"a">>
    /\ cells[2] = <<>>
    /\ hasItem(localStorage, getCalendarStorageKey(LoadYear, 0))
    /\ JSONparse(localStorage[getCalendarStorageKey(LoadYear, 0)]).notes = (2 :> <<"a">>)

\* C8: navigateMonth wraps the year at both ends: next from (Y, 11) gives
\* (Y + 1, 0), previous from (Y, 0) gives (Y - 1, 11), and from any other
\* month the month moves by one and the year stays.
C8_NavigateWrapsYear ==
    lastEvent.type \in {"prev-month", "next-month"} =>
       /\ lastEvent.arg = (IF lastEvent.type = "next-month" THEN 1 ELSE -1)
       /\ <<currentYear, currentMonth>> =
             IF lastEvent.arg = 1
             THEN (IF before.month = 11 THEN <<before.year + 1, 0>>
                   ELSE <<before.year, before.month + 1>>)
             ELSE (IF before.month = 0 THEN <<before.year - 1, 11>>
                   ELSE <<before.year, before.month - 1>>)

\* previous from January of the next year, which next had reached from December
C8_Witness ==
    /\ lastEvent.type = "prev-month"
    /\ before.year = LoadYear + 1
    /\ before.month = 0
    /\ currentYear = LoadYear
    /\ currentMonth = 11

---------------------------------------------------------------------------
(* Properties of the theme selector.                                       *)

\* the text "r, g, b" of three bytes
rgbText(r, g, b) == <<ToString(r), ",", " ", ToString(g), ",", " ", ToString(b)>>

\* the hex digits and what each is worth, in both cases of the letters
HexWorth ==
    [c \in {"0", "1", "2", "3", "4", "5", "6", "7", "8", "9"} |->
        CHOOSE v \in 0..9 : ToString(v) = c]
    @@ ("a" :> 10) @@ ("b" :> 11) @@ ("c" :> 12) @@ ("d" :> 13) @@ ("e" :> 14)
    @@ ("f" :> 15) @@ ("A" :> 10) @@ ("B" :> 11) @@ ("C" :> 12) @@ ("D" :> 13)
    @@ ("E" :> 14) @@ ("F" :> 15)

\* hex is n hex digits, after one "#" or none
IsHexColor(hex, n) ==
    \/ Len(hex) = n /\ \A k \in 1..n : hex[k] \in DOMAIN HexWorth
    \/ /\ Len(hex) = n + 1
       /\ hex[1] = "#"
       /\ \A k \in 2..(n + 1) : hex[k] \in DOMAIN HexWorth

\* the digit of a hex colour at position k after its "#", if it has one
DigitAt(hex, k) == IF hex[1] = "#" THEN hex[k + 1] ELSE hex[k]

\* the six-digit colour that doubles each digit of a three-digit one and keeps its "#"
Doubled(hex) ==
    (IF hex[1] = "#" THEN <<"#">> ELSE <<>>)
        \o <<DigitAt(hex, 1), DigitAt(hex, 1), DigitAt(hex, 2), DigitAt(hex, 2),
              DigitAt(hex, 3), DigitAt(hex, 3)>>

\* the root element has been given its accent colour
ColorIsSet == DOMAIN cssVars = {ROOT_COLOR_VAR, ROOT_RGB_COLOR_VAR}

\* C13: hexToRgb gives a three-digit hex colour, with or without "#" and in
\* either case of its letters, the triple of its six-digit expansion with
\* each digit doubled, which is 17 times each digit; and it gives every text
\* that is neither a three-digit nor a six-digit hex colour the text
\* "253, 224, 71".
C13_ShorthandAsExpansion ==
    ColorIsSet =>
       /\ IsHexColor(cssVars[ROOT_COLOR_VAR], 3) =>
             /\ cssVars[ROOT_RGB_COLOR_VAR] = hexToRgb(Doubled(cssVars[ROOT_COLOR_VAR]))
             /\ cssVars[ROOT_RGB_COLOR_VAR] =
                   rgbText(17 * HexWorth[DigitAt(cssVars[ROOT_COLOR_VAR], 1)],
                           17 * HexWorth[DigitAt(cssVars[ROOT_COLOR_VAR], 2)],
                           17 * HexWorth[DigitAt(cssVars[ROOT_COLOR_VAR], 3)])
       /\ (~IsHexColor(cssVars[ROOT_COLOR_VAR], 3) /\ ~IsHexColor(cssVars[ROOT_COLOR_VAR], 6)) =>
             cssVars[ROOT_RGB_COLOR_VAR] = <<"253", ",", " ", "224", ",", " ", "71">>

\* the picker was given "0aF", without "#" and in both cases
C13_Witness ==
    /\ lastEvent.type = "input"
    /\ ColorIsSet
    /\ cssVars[ROOT_COLOR_VAR] = <<"0", "a", "F">>
    /\ cssVars[ROOT_RGB_COLOR_VAR] = <<"0", ",", " ", "170", ",", " ", "255">>

\* C16: once initThemeSelector has run, and after every input and change
\* event, the stored accentColor, --accent-color and (on a page that holds
\* the picker) the picker's value are one text, and --accent-color-rgb is
\* hexToRgb of that text.
C16_RgbFollowsHex ==
    ("initThemeSelector" \in ran) =>
       /\ ColorIsSet
       /\ hasItem(localStorage, COLOR_STORAGE_KEY)
       /\ localStorage[COLOR_STORAGE_KEY] = cssVars[ROOT_COLOR_VAR]
       /\ "accentColorPicker" \in page => pickerValue = cssVars[ROOT_COLOR_VAR]
       /\ cssVars[ROOT_RGB_COLOR_VAR] = hexToRgb(localStorage[COLOR_STORAGE_KEY])
       /\ IsHexColor(cssVars[ROOT_COLOR_VAR], 6) =>
             cssVars[ROOT_RGB_COLOR_VAR] =
                rgbText(16 * HexWorth[DigitAt(cssVars[ROOT_COLOR_VAR], 1)]
                           + HexWorth[DigitAt(cssVars[ROOT_COLOR_VAR], 2)],
                        16 * HexWorth[DigitAt(cssVars[ROOT_COLOR_VAR], 3)]
                           + HexWorth[DigitAt(cssVars[ROOT_COLOR_VAR], 4)],
                        16 * HexWorth[DigitAt(cssVars[ROOT_COLOR_VAR], 5)]
                           + HexWorth[DigitAt(cssVars[ROOT_COLOR_VAR], 6)])

\* a change event gave "#aF00aF" after the page had loaded with "#0aF" stored
C16_Witness ==
    /\ lastEvent.type = "change"
    /\ before.store[COLOR_STORAGE_KEY] = <<"#", "0", "a", "F">>
    /\ pickerValue = <<"#", "a", "F", "0", "0", "a", "F">>
    /\ localStorage[COLOR_STORAGE_KEY] = <<"#", "a", "F", "0", "0", "a", "F">>
    /\ cssVars[ROOT_RGB_COLOR_VAR] = <<"175", ",", " ", "0", ",", " ", "175">>
    /\ hexDisplay = <<"Current Hex: ", "#", "A", "F", "0", "0", "A", "F">>

---------------------------------------------------------------------------
(* Properties of the stored checklist and of its rows.                     *)

\* C11: every item of the stored checklist has a text that is not empty after
\* trimming and a checked field that is a boolean, from an absent key or a
\* valid array on, after any addItem, toggleItem and deleteItem.
C11_StoredItemsAreValid ==
    StoredIsArray =>
       \A j \in 1..Len(StoredItems) :
          /\ ~IsBlank(StoredItems[j].text)
          /\ StoredItems[j].checked \in BOOLEAN

\* the first of two items was deleted after "aa" had been added behind it and checked
C11_Witness ==
    /\ lastEvent.type = "deleteClick"
    /\ Len(ItemsBefore) = 2
    /\ StoredItems = <<[text |-> <<"a", "a">>, checked |-> TRUE]>>

\* the store after saveChecklist(loadChecklist())
Resaved(store) == saveChecklist(store, loadChecklist(store).items)

\* C12: on a store that holds a checklist, saveChecklist(loadChecklist())
\* leaves the sequence that loadChecklist returns, and every other key, as
\* they were, and a second saveChecklist(loadChecklist()) changes nothing.
C12_SaveLoadRoundTrip ==
    StoredIsArray =>
       /\ loadChecklist(Resaved(localStorage)) = loadChecklist(localStorage)
       /\ \A key \in DOMAIN localStorage \ {CHECKLIST_STORAGE_KEY} :
             Resaved(localStorage)[key] = localStorage[key]
       /\ DOMAIN Resaved(localStorage) = DOMAIN localStorage
       /\ Resaved(Resaved(localStorage)) = Resaved(localStorage)

\* the store holds a checked item and, behind it, an unchecked one of two characters
C12_Witness ==
    /\ StoredIsArray
    /\ Len(StoredItems) = 2
    /\ StoredItems[1].checked
    /\ StoredItems[2] = [text |-> <<"a", "a">>, checked |-> FALSE]
    /\ loadChecklist(Resaved(localStorage)).items = StoredItems

\* C14: once the checklist has been rendered at load, and after every add,
\* toggle and delete, no listener has thrown and the rows are the stored
\* sequence: as many rows as items, each with the text and the checked state
\* of the item at its place, and with that place as the index its listeners
\* captured.
C14_RowsMirrorStore ==
    (pc = "done" /\ {"inputBox", "checklist"} \subseteq page) =>
       /\ ~lastEvent.thrown
       /\ Len(rows) = Len(StoredItems)
       /\ \A j \in 1..Len(rows) :
             /\ rows[j].index = j - 1
             /\ rows[j].text = StoredItems[j].text
             /\ rows[j].completed = StoredItems[j].checked

\* the second of two rows was clicked: it is completed, and still the second
C14_Witness ==
    /\ lastEvent.type = "rowClick"
    /\ lastEvent.arg = 1
    /\ Len(rows) = 2
    /\ rows[1] = [index |-> 0, text |-> <<"a", "a">>, completed |-> FALSE]
    /\ rows[2] = [index |-> 1, text |-> <<"a">>, completed |-> TRUE]

---------------------------------------------------------------------------
(* Properties of the displayed month.                                      *)

\* the notes object that the store holds for a month: {} when it holds none
StoredNotes(store, year, month) ==
    JSONparse(notesText(store, getCalendarStorageKey(year, month))).notes

\* the note that a notes object holds for a day: '' when it holds none
NoteOf(notes, day) == IF day \in DOMAIN notes THEN notes[day] ELSE <<>>

\* C15: whenever a month is displayed with its day cells, the notes object
\* its listeners hold is the one the store holds for that month, the note
\* shown for each day is that object's value for the day, and every note
\* the user has entered, in this month or another, is what the store holds
\* for its day: the last value entered for that day of that month.
C15_ShownNotesAreStoredNotes ==
    /\ cells # <<>> =>
          /\ monthYear = <<currentYear, currentMonth>>
          /\ notesKey = getCalendarStorageKey(currentYear, currentMonth)
          /\ savedNotes = StoredNotes(localStorage, currentYear, currentMonth)
          /\ \A d \in DOMAIN cells :
                /\ cells[d] = NoteOf(StoredNotes(localStorage, currentYear, currentMonth), d)
                /\ <<currentYear, currentMonth, d>> \in DOMAIN entered =>
                      cells[d] = entered[<<currentYear, currentMonth, d>>]
    /\ \A e \in DOMAIN entered :
          NoteOf(StoredNotes(localStorage, e[1], e[2]), e[3]) = entered[e]

\* January is displayed again, after a note was entered for its day 2, then
\* one for day 1 of February: its cells show its own notes
C15_Witness ==
    /\ lastEvent.type = "prev-month"
    /\ currentYear = LoadYear
    /\ currentMonth = 0
    /\ entered = (<<LoadYear, 0, 2>> :> <<"a">>) @@ (<<LoadYear, 1, 1>> :> <<"a">>)
    /\ cells[1] = <<>>
    /\ cells[2] = <<"a">>
    /\ savedNotes = (2 :> <<"a">>)

\* navigateMonth from where navigateMonth(year, month, direction) leads, the other way
Back(moved, direction) == navigateMonth(moved.year, moved.month, -direction)

\* C18: the month stays within 0..11, and next and previous undo each other:
\* from the (year, month) displayed, next then previous, and previous then
\* next, lead to the same (year, month) in months within 0..11; and previous
\* from where a click on next has led, or next from where a click on
\* previous has led, is where the click was made.
C18_NextAndPreviousAreInverse ==
    /\ currentMonth \in 0..11
    /\ navigateMonth(currentYear, currentMonth, 1).month \in 0..11
    /\ navigateMonth(currentYear, currentMonth, -1).month \in 0..11
    /\ Back(navigateMonth(currentYear, currentMonth, 1), 1)
          = [month |-> currentMonth, year |-> currentYear]
    /\ Back(navigateMonth(currentYear, currentMonth, -1), -1)
          = [month |-> currentMonth, year |-> currentYear]
    /\ lastEvent.type \in {"prev-month", "next-month"} =>
          navigateMonth(currentYear, currentMonth, -lastEvent.arg)
             = [month |-> before.month, year |-> before.year]

\* next from December of the year before, which previous had reached from January
C18_Witness ==
    /\ lastEvent.type = "next-month"
    /\ navs = 2
    /\ before.year = LoadYear - 1
    /\ before.month = 11
    /\ currentYear = LoadYear
    /\ currentMonth = 0

---------------------------------------------------------------------------
(* Properties of the wallpaper toggle.                                     *)

\* C17: once initWallpaperToggle has set the wallpaper, and after every click
\* on the toggle button, the video is shown, under the label 'Use Static
\* Image', exactly when the stored wallpaperState is 'video', and the static
\* image, under the label 'Use Video Background', otherwise.
C17_WallpaperShowsStoredState ==
    wallpaper # "untouched" =>
       /\ hasItem(localStorage, WALLPAPER_STORAGE_KEY)
       /\ wallpaper = "video" <=> localStorage[WALLPAPER_STORAGE_KEY] = <<"video">>

---------------------------------------------------------------------------
(* Properties of the on-screen keyboard.                                   *)

\* C19: from an empty passcode field on, after any clicks on keys of one
\* character, on backspace and on submit, the field holds at most 4
\* characters, and backspace on an empty field leaves it empty.
C19_KeypadLimitsPasscode ==
    /\ Len(passwordInput) <= 4
    /\ (lastEvent.type = "backspace" /\ before.password = <<>>) => passwordInput = <<>>

\* a fifth key was clicked on a field of four characters, which it left as it was
C19_Witness ==
    /\ lastEvent.type = "key"
    /\ before.password = <<"1", "2", "3", "4">>
    /\ passwordInput = <<"1", "2", "3", "4">>

\* C20: with the keypad alone, from an empty field, the window never goes to
\* main.html: every submit ends in the alert of the incorrect passcode, the
\* accepted value being longer than the 4 characters the keypad builds.
C20_KeypadNeverUnlocks ==
    /\ location # "main.html"
    /\ lastEvent.type = "submit" =>
          /\ alerts
          /\ passwordInput = before.password
          /\ Len(passwordInput) < Len(acceptedPasscode)

\* submit was clicked on the passcode of the hint: the alert was shown
C20_Witness ==
    /\ lastEvent.type = "submit"
    /\ passwordInput = <<"1", "2", "3", "4">>
    /\ alerts
    /\ location = "loaded"

====
